---- MODULE Spec2Model ----
(***************************************************************************)
(* The retrieval engine of wandbot: Retriever (retriever/base.py), the     *)
(* query engine it builds and the stages that engine runs: the fusion      *)
(* retriever over one hybrid retriever per index, the tag filter, the      *)
(* language filter and the Cohere re-ranker.                               *)
(*                                                                         *)
(* Optional values (Python's `x | None`) are sequences of length <= 1:     *)
(* <<>> is None and <<v>> is the value v.                                  *)
(***************************************************************************)
EXTENDS Integers, Sequences, FiniteSets, TLC

VARIABLES
    config,              \* RetrieverConfig: top_k, similarity_top_k, language
    is_avoid_query,      \* Retriever.is_avoid_query, the stored flag
    calls,               \* the retrieve calls, one record of locals per caller
    failed_since_write,  \* history: a retrieve call has raised since the flag was last written
    bench,               \* the fusion functions applied to one set of search answers
    client,              \* one query of an API client: APIClient or AsyncAPIClient
    zd                   \* the Zendesk bot (apps/ZD/ZDWandbot.py) and the tickets of the Zendesk account

vars == <<config, is_avoid_query, calls, failed_since_write, bench, client, zd>>

(***************************************************************************)
(* Bounds of the model.                                                    *)
(***************************************************************************)
MaxHits == 2
MaxTopK == 2

(***************************************************************************)
(* Sequences.                                                              *)
(***************************************************************************)
None == <<>>
Some(v) == <<v>>

Min(a, b) == IF a <= b THEN a ELSE b

Take(s, n) == IF n <= 0 THEN <<>> ELSE SubSeq(s, 1, Min(n, Len(s)))

Range(s) == {s[i] : i \in DOMAIN s}

NoDup(s) == \A i, j \in DOMAIN s : i # j => s[i] # s[j]

Ids(nodes) == [i \in DOMAIN nodes |-> nodes[i].id]

\* The sequences of distinct elements of S of length at most n.
RECURSIVE DistinctSeqs(_, _)
DistinctSeqs(S, n) ==
    IF n <= 0 \/ S = {} THEN {<<>>}
    ELSE {<<>>} \cup
         UNION {{<<x>> \o t : t \in DistinctSeqs(S \ {x}, n - 1)} : x \in S}

\* The first occurrence of every element, in order.
RECURSIVE Dedup(_)
Dedup(s) ==
    IF s = <<>> THEN <<>>
    ELSE LET front == Dedup(SubSeq(s, 1, Len(s) - 1))
             last == s[Len(s)]
         IN IF last \in Range(front) THEN front ELSE Append(front, last)

RECURSIVE Concat(_)
Concat(lists) ==
    IF lists = <<>> THEN <<>> ELSE Head(lists) \o Concat(Tail(lists))

\* The position of x in s (0 when absent).
RankIn(s, x) ==
    IF x \in Range(s) THEN CHOOSE i \in DOMAIN s : s[i] = x /\ \A j \in 1..(i - 1) : s[j] # x
    ELSE 0

\* A stable sort of scored nodes by descending score: of two nodes with the
\* same score the one that came first stays first.
RECURSIVE InsertByScore(_, _)
InsertByScore(sorted, node) ==
    IF sorted = <<>> THEN <<node>>
    ELSE IF Head(sorted).score >= node.score
         THEN <<Head(sorted)>> \o InsertByScore(Tail(sorted), node)
         ELSE <<node>> \o sorted

RECURSIVE SortByScore(_)
SortByScore(nodes) ==
    IF nodes = <<>> THEN <<>>
    ELSE InsertByScore(SortByScore(SubSeq(nodes, 1, Len(nodes) - 1)), nodes[Len(nodes)])

(***************************************************************************)
(* The index store: passage nodes and their metadata.                      *)
(***************************************************************************)
Nodes == {1, 2, 3}

NodeLanguage(n) == CASE n = 1 -> "en" [] n = 2 -> "python" [] OTHER -> "ja"

NodeTags(n) == CASE n = 1 -> {"api"} [] n = 2 -> {"faq"} [] OTHER -> {"api", "faq"}

NodeText(n) == CASE n = 1 -> "log metrics" [] n = 2 -> "wandb.log()" [] OTHER -> "metorikusu"

\* The answers of the dense and the sparse search of every index to one
\* query: for each index two lists of distinct node ids of that index, best
\* first, each of at most cap entries.
RECURSIVE HitsOf(_, _)
HitsOf(stores, cap) ==
    IF stores = <<>> THEN {<<>>}
    ELSE LET lists == DistinctSeqs(Head(stores), cap)
         IN {<<[dense |-> d, sparse |-> s]>> \o rest :
                d \in lists, s \in lists, rest \in HitsOf(Tail(stores), cap)}

(***************************************************************************)
(* HybridRetriever: the dense and the sparse hit list of one index merged  *)
(* by node id. A node's score is derived from the better of its two ranks. *)
(***************************************************************************)
RECURSIVE ProductTo(_, _)
ProductTo(n, k) == IF n <= 0 THEN 1 ELSE (n + k) * ProductTo(n - 1, k)

MaxRank == 2 * MaxHits

\* 1/rank in units of 1/MaxRank!.
RankScore(rank) == ProductTo(MaxRank, 0) \div rank

BestRank(dense, sparse, n) ==
    IF RankIn(dense, n) = 0 THEN RankIn(sparse, n)
    ELSE IF RankIn(sparse, n) = 0 THEN RankIn(dense, n)
    ELSE Min(RankIn(dense, n), RankIn(sparse, n))

HybridRetrieve(dense, sparse) ==
    LET seen == Dedup(dense \o sparse)
    IN SortByScore([i \in DOMAIN seen |->
                       [id |-> seen[i], score |-> RankScore(BestRank(dense, sparse, seen[i]))]])

(***************************************************************************)
(* FusionRetriever: reciprocal-rank fusion of the sub-lists, one per query *)
(* variant and index.                                                      *)
(***************************************************************************)
RRFConstant == 1

RankPlusConstant(rank, k) == rank + k

\* 1/(rank + k) in units of 1/((1 + k) * ... * (MaxRank + k)).
Reciprocal(rank, k) == ProductTo(MaxRank, k) \div (rank + k)

\* The score a node would have from the first of the lists alone.
FusedScoreOfFirst(lists, n, k) ==
    IF lists = <<>> \/ RankIn(Ids(Head(lists)), n) = 0 THEN 0
    ELSE Reciprocal(RankIn(Ids(Head(lists)), n), k)

RECURSIVE FusedScore(_, _, _)
FusedScore(lists, n, k) ==
    IF lists = <<>> THEN 0
    ELSE (IF RankIn(Ids(Head(lists)), n) = 0 THEN 0
          ELSE Reciprocal(RankIn(Ids(Head(lists)), n), k))
         + FusedScore(Tail(lists), n, k)

FuseNoDedup(lists, k, top) ==
    LET seen == Concat([i \in DOMAIN lists |-> Ids(lists[i])])
    IN Take(SortByScore([i \in DOMAIN seen |->
                            [id |-> seen[i], score |-> FusedScore(lists, seen[i], k)]]), top)

Fuse(lists, k, top) ==
    LET seen == Dedup(Concat([i \in DOMAIN lists |-> Ids(lists[i])]))
    IN Take(SortByScore([i \in DOMAIN seen |->
                            [id |-> seen[i], score |-> FusedScore(lists, seen[i], k)]]), top)

\* FusionRetriever(..., num_queries=1): the query itself is the one variant.
NumQueries == 1

\* The sub-lists: for every query variant one hybrid list per index.
SubLists(hits) ==
    Concat([q \in 1..NumQueries |->
               [i \in DOMAIN hits |-> HybridRetrieve(hits[i].dense, hits[i].sparse)]])

Prefixes(s) == {SubSeq(s, 1, n) : n \in 0..Len(s)}

\* What the fusion retriever may return. In avoid mode a relevance floor
\* cuts the fused list at some score: any prefix of it, the empty one too.
FusionRetrieve(lists, k, top, avoid) ==
    IF avoid THEN Prefixes(Fuse(lists, k, top)) ELSE {Fuse(lists, k, top)}

(***************************************************************************)
(* The post-processors the query engine applies to the fused list.         *)
(***************************************************************************)
PassesInclude(n, include_tags) ==
    include_tags = None \/ include_tags[1] = {} \/ NodeTags(n) \cap include_tags[1] # {}

PassesExclude(n, exclude_tags) ==
    exclude_tags = None \/ NodeTags(n) \cap exclude_tags[1] = {}

StrictTags(nodes, include_tags, exclude_tags) ==
    LET Keep(x) == PassesInclude(x.id, include_tags) /\ PassesExclude(x.id, exclude_tags)
    IN SelectSeq(nodes, Keep)

MetadataNoBackfill(nodes, include_tags, exclude_tags, min_result_size) ==
    StrictTags(nodes, include_tags, exclude_tags)

\* MetadataPostprocessor: the strict filter and, when it leaves fewer than
\* min_result_size nodes, the nodes that pass once the exclusion is dropped
\* and then those that pass once the inclusion is dropped too, each in the
\* order of the input, until min_result_size is reached.
MetadataPostprocessor(nodes, include_tags, exclude_tags, min_result_size) ==
    LET strict == StrictTags(nodes, include_tags, exclude_tags)
        NoExclude(x) == PassesInclude(x.id, include_tags) /\ ~PassesExclude(x.id, exclude_tags)
        NoInclude(x) == ~PassesInclude(x.id, include_tags)
        relaxed == SelectSeq(nodes, NoExclude) \o SelectSeq(nodes, NoInclude)
    IN IF Len(strict) >= min_result_size THEN strict
       ELSE strict \o Take(relaxed, min_result_size - Len(strict))

StrictLanguage(nodes, languages) ==
    LET Keep(x) == NodeLanguage(x.id) \in Range(languages)
    IN SelectSeq(nodes, Keep)

\* LanguageFilterPostprocessor, with the same backfill.
LanguageFilterPostprocessor(nodes, languages, min_result_size) ==
    LET strict == StrictLanguage(nodes, languages)
        Other(x) == NodeLanguage(x.id) \notin Range(languages)
    IN IF Len(strict) >= min_result_size THEN strict
       ELSE strict \o Take(SelectSeq(nodes, Other), min_result_size - Len(strict))

\* The positions of s in every order, top_n of them (all when s is shorter).
Rankings(s, top_n) ==
    {r \in DistinctSeqs(DOMAIN s, top_n) : Len(r) = Min(top_n, Len(s))}

\* CohereRerank.postprocess_nodes when the Cohere client answers: no nodes,
\* no request; otherwise the top_n most relevant nodes in the client's
\* order, under its relevance scores (here top_n, top_n - 1, ...).
CohereRerank(nodes, top_n) ==
    IF nodes = <<>> THEN {<<>>}
    ELSE {[i \in DOMAIN r |-> [id |-> nodes[r[i]].id, score |-> Len(r) + 1 - i]] :
             r \in Rankings(nodes, top_n)}

\* Whether the re-ranker sends a request to the Cohere client.
CallsCohereAlways(nodes) == TRUE

CallsCohere(nodes) == nodes # <<>>

(***************************************************************************)
(* RetrieverConfig and Retriever.__init__.                                 *)
(***************************************************************************)
DefaultTopK == 10
DefaultSimilarityTopK == 10

DefaultConfig ==
    [top_k |-> DefaultTopK, similarity_top_k |-> DefaultSimilarityTopK, language |-> "en"]

\* The defaults, and a store configured through RETRIEVER_TOP_K,
\* RETRIEVER_SIMILARITY_TOP_K and RETRIEVER_LANGUAGE.
Configs == {DefaultConfig, [top_k |-> 1, similarity_top_k |-> 2, language |-> "ja"]}

\* self.indices: two indices that share a node.
Indices == <<{1, 2}, {2, 3}>>

\* What the searches of one retrieval may answer.
Searches(cfg) == HitsOf(Indices, Min(MaxHits, cfg.similarity_top_k))

\* The sub-lists the hybrid retrievers may hand to the fusion, over every
\* answer of the searches.
SubListAnswers == [cfg \in Configs |-> {SubLists(hits) : hits \in Searches(cfg)}]

(***************************************************************************)
(* Python's truth values and `a or b`.                                     *)
(***************************************************************************)
TruthyInt(x) == x # None /\ x[1] # 0
TruthyStr(x) == x # None /\ x[1] # ""
TruthyBool(x) == x = Some(TRUE)

\* top_k or self.config.top_k
OrTopK(top_k, cfg) == IF TruthyInt(top_k) THEN top_k[1] ELSE cfg.top_k

\* language or self.config.language
OrLanguage(language, cfg) == IF TruthyStr(language) THEN language[1] ELSE cfg.language

\* self.is_avoid_query or is_avoid_query
OrAvoidArgumentFirst(stored, is_avoid_query_arg) ==
    IF is_avoid_query_arg # None THEN is_avoid_query_arg ELSE stored

OrAvoid(stored, is_avoid_query_arg) ==
    IF TruthyBool(stored) THEN stored ELSE is_avoid_query_arg

\* load_query_engine: if is_avoid_query is not None: self.is_avoid_query = is_avoid_query
StoreFlag(stored, is_avoid_query_arg) ==
    IF is_avoid_query_arg # None THEN is_avoid_query_arg ELSE stored

\* load_query_engine: the post-processors it builds from top_k and language.
MinResultSize(top_k) == top_k

LanguagesWithoutFallback(language) == <<language>>

Languages(language) == <<language, "python">>

RerankTopN(top_k) == top_k

RerankModelMultilingualOnly(language) == "rerank-multilingual-v2.0"

RerankModel(language) ==
    IF language = "en" THEN "rerank-english-v2.0" ELSE "rerank-multilingual-v2.0"

\* retrieve: the output shape of the final list.
Outputs(results) ==
    [i \in DOMAIN results |->
        [text |-> NodeText(results[i].id),
         metadata |-> [language |-> NodeLanguage(results[i].id), tags |-> NodeTags(results[i].id)],
         score |-> results[i].score]]

\* retrieve: self.is_avoid_query = None
KeepFlag(stored) == stored

ClearFlag(stored) == None

(***************************************************************************)
(* Retriever.retrieve, one step per statement that reads or writes the     *)
(* engine or calls a collaborator.                                         *)
(***************************************************************************)
Callers == {1, 2}

NoArgs ==
    [top_k |-> None, language |-> None, include_tags |-> None,
     exclude_tags |-> None, is_avoid_query |-> None]

\* The locals of a call that has not started.
IdleCall ==
    [pc |-> "idle", args |-> NoArgs, top_k |-> 0, language |-> "", rerank_model |-> "",
     rerank_top_n |-> 0,
     avoid_query |-> None, sub_lists |-> <<>>, fused |-> <<>>, tagged |-> <<>>, langed |-> <<>>,
     results |-> <<>>, outputs |-> <<>>, raised |-> "none", outcome |-> "none",
     ran |-> <<>>, called |-> FALSE, call_outcome |-> "none", call_result |-> <<>>]

\* The arguments a caller may pass to retrieve.
AllArgs ==
    [top_k : {None} \cup {Some(n) : n \in 0..MaxTopK},
     language : {None, Some(""), Some("en"), Some("ja")},
     include_tags : {None, Some({"api"})},
     exclude_tags : {None, Some({"faq"})},
     is_avoid_query : {None, Some(FALSE), Some(TRUE)}]

\* load_query_engine: node_postprocessors=[MetadataPostprocessor(...),
\* LanguageFilterPostprocessor(...), CohereRerank(...)], by the name of the step
\* that runs each.
NodePostprocessorsLanguageFirst == <<"lang", "tag", "rerank">>

NodePostprocessors == <<"tag", "lang", "rerank">>

PositionOf(stage) == CHOOSE i \in DOMAIN NodePostprocessors : NodePostprocessors[i] = stage

\* The list a post-processor has returned to the engine.
StageOutput(c, stage) ==
    CASE stage = "tag" -> calls[c].tagged
      [] stage = "lang" -> calls[c].langed
      [] stage = "rerank" -> calls[c].results

\* _apply_node_postprocessors: every post-processor is given the list of the
\* one before it in the list, the first one the list of the fusion retriever.
StageInput(c, stage) ==
    IF PositionOf(stage) = 1 THEN calls[c].fused
    ELSE StageOutput(c, NodePostprocessors[PositionOf(stage) - 1])

\* What the engine does after a post-processor: the next one, or it returns.
StageAfter(stage) ==
    IF PositionOf(stage) = Len(NodePostprocessors) THEN "map"
    ELSE NodePostprocessors[PositionOf(stage) + 1]

\* A caller enters retrieve(query, language, top_k, include_tags, exclude_tags, is_avoid_query).
Retrieve(c, Args) ==
    /\ calls[c].pc = "idle"
    /\ \E a \in Args : calls' = [calls EXCEPT ![c] = [IdleCall EXCEPT !.pc = "load", !.args = a]]
    /\ UNCHANGED <<config, is_avoid_query, failed_since_write, bench, client, zd>>

\* A collaborator raises: nothing in retrieve, load_query_engine or the query
\* engine catches, so the exception leaves retrieve at once.
Raise(c, err) ==
    /\ calls' = [calls EXCEPT ![c].pc = "done", ![c].raised = err, ![c].outcome = "raised"]
    /\ failed_since_write' = TRUE
    /\ UNCHANGED <<config, is_avoid_query, bench, client, zd>>

\* top_k and language are resolved in retrieve and again in load_query_engine,
\* which is called without is_avoid_query and builds the post-processors.
LoadQueryEngine(c) ==
    /\ calls[c].pc = "load"
    /\ LET top_k == OrTopK(Some(OrTopK(calls[c].args.top_k, config)), config)
           language == OrLanguage(Some(OrLanguage(calls[c].args.language, config)), config)
       IN calls' = [calls EXCEPT ![c].pc = "flag", ![c].top_k = top_k,
                                 ![c].language = language,
                                 ![c].rerank_model = RerankModel(language),
                                 ![c].rerank_top_n = RerankTopN(top_k)]
    /\ is_avoid_query' = StoreFlag(is_avoid_query, None)
    /\ UNCHANGED <<config, failed_since_write, bench, client, zd>>

\* avoid_query = self.is_avoid_query or is_avoid_query
ReadFlag(c) ==
    /\ calls[c].pc = "flag"
    /\ calls' = [calls EXCEPT ![c].pc = "embed",
                              ![c].avoid_query = OrAvoid(is_avoid_query, calls[c].args.is_avoid_query)]
    /\ UNCHANGED <<config, is_avoid_query, failed_since_write, bench, client, zd>>

\* embed_model.get_query_embedding(query) answers.
Embed(c) ==
    /\ calls[c].pc = "embed"
    /\ calls' = [calls EXCEPT ![c].pc = "fusion"]
    /\ UNCHANGED <<config, is_avoid_query, failed_since_write, bench, client, zd>>

EmbedRaises(c) ==
    /\ calls[c].pc = "embed"
    /\ Raise(c, "embedding")

\* WandbRetrieverQueryEngine.retrieve: self._retriever.retrieve(query_bundle,
\* is_avoid_query=bool(avoid_query)). The fusion retriever first asks the hybrid
\* retriever of every index.
HybridSearch(c, Answers) ==
    /\ calls[c].pc = "fusion"
    /\ \E lists \in Answers :
          calls' = [calls EXCEPT ![c].pc = "fuse", ![c].sub_lists = lists]
    /\ UNCHANGED <<config, is_avoid_query, failed_since_write, bench, client, zd>>

\* The fusion retriever fuses the sub-lists and returns; its locals are gone.
FuseLists(c) ==
    /\ calls[c].pc = "fuse"
    /\ \E nodes \in FusionRetrieve(calls[c].sub_lists, RRFConstant, config.similarity_top_k,
                                    TruthyBool(calls[c].avoid_query)) :
          calls' = [calls EXCEPT ![c].pc = NodePostprocessors[1], ![c].sub_lists = <<>>,
                                 ![c].fused = nodes,
                                 ![c].ran = Append(calls[c].ran, "fusion")]
    /\ UNCHANGED <<config, is_avoid_query, failed_since_write, bench, client, zd>>

SearchRaises(c) ==
    /\ calls[c].pc = "fusion"
    /\ Raise(c, "search")

\* _apply_node_postprocessors, first post-processor.
TagFilter(c) ==
    /\ calls[c].pc = "tag"
    /\ calls' = [calls EXCEPT ![c].pc = StageAfter("tag"),
                              ![c].ran = Append(calls[c].ran, "tag"),
                              ![c].tagged = MetadataPostprocessor(StageInput(c, "tag"),
                                                calls[c].args.include_tags,
                                                calls[c].args.exclude_tags,
                                                MinResultSize(calls[c].top_k))]
    /\ UNCHANGED <<config, is_avoid_query, failed_since_write, bench, client, zd>>

\* Second post-processor.
LanguageFilter(c) ==
    /\ calls[c].pc = "lang"
    /\ calls' = [calls EXCEPT ![c].pc = StageAfter("lang"),
                              ![c].ran = Append(calls[c].ran, "lang"),
                              ![c].langed = LanguageFilterPostprocessor(StageInput(c, "lang"),
                                                Languages(calls[c].language),
                                                MinResultSize(calls[c].top_k))]
    /\ UNCHANGED <<config, is_avoid_query, failed_since_write, bench, client, zd>>

\* Third post-processor; the engine returns its list to retrieve.
Rerank(c) ==
    /\ calls[c].pc = "rerank"
    /\ \E nodes \in CohereRerank(StageInput(c, "rerank"), calls[c].rerank_top_n) :
          calls' = [calls EXCEPT ![c].pc = StageAfter("rerank"), ![c].results = nodes,
                                 ![c].ran = Append(calls[c].ran, "rerank")]
    /\ UNCHANGED <<config, is_avoid_query, failed_since_write, bench, client, zd>>

\* The Cohere client raises (service down, timeout, bad key).
RerankRaises(c) ==
    /\ calls[c].pc = "rerank"
    /\ CallsCohere(StageInput(c, "rerank"))
    /\ Raise(c, "rerank")

\* outputs = [...]; self.is_avoid_query = None; return outputs
Return(c) ==
    /\ calls[c].pc = "map"
    /\ calls' = [calls EXCEPT ![c].pc = "done", ![c].outputs = Outputs(calls[c].results),
                              ![c].outcome = "returned"]
    /\ is_avoid_query' = ClearFlag(is_avoid_query)
    /\ failed_since_write' = FALSE
    /\ UNCHANGED <<config, bench, client, zd>>

\* __call__(query, **kwargs): retrievals = self.retrieve(query, **kwargs)
Call(c, Args) ==
    /\ calls[c].pc = "idle"
    /\ \E a \in Args :
          calls' = [calls EXCEPT ![c] = [IdleCall EXCEPT !.pc = "load", !.args = a,
                                                          !.called = TRUE]]
    /\ UNCHANGED <<config, is_avoid_query, failed_since_write, bench, client, zd>>

\* __call__ after retrieve has returned a list with a first entry: the two
\* debug messages are built, len(retrievals) and retrievals[0], and the list
\* is returned.
CallReturn(c) ==
    /\ calls[c].called /\ calls[c].call_outcome = "none"
    /\ calls[c].pc = "done" /\ calls[c].outcome = "returned"
    /\ calls[c].outputs # <<>>
    /\ calls' = [calls EXCEPT ![c].call_outcome = "returned",
                              ![c].call_result = calls[c].outputs]
    /\ UNCHANGED <<config, is_avoid_query, failed_since_write, bench, client, zd>>

\* __call__ after retrieve has returned the empty list: building the second
\* message evaluates retrievals[0], an IndexError, whatever the level of the
\* logger; nothing catches it.
CallRaises(c) ==
    /\ calls[c].called /\ calls[c].call_outcome = "none"
    /\ calls[c].pc = "done" /\ calls[c].outcome = "returned"
    /\ calls[c].outputs = <<>>
    /\ calls' = [calls EXCEPT ![c].call_outcome = "raised"]
    /\ UNCHANGED <<config, is_avoid_query, failed_since_write, bench, client, zd>>

\* The caller has its list, or its exception, and the locals of the call are gone.
Leave(c) ==
    /\ calls[c].pc = "done"
    /\ calls[c].called => (calls[c].outcome = "raised" \/ calls[c].call_outcome # "none")
    /\ calls' = [calls EXCEPT ![c] = IdleCall]
    /\ UNCHANGED <<config, is_avoid_query, failed_since_write, bench, client, zd>>

\* A caller of load_query_engine(is_avoid_query=v) itself.
ExternalLoadQueryEngine ==
    /\ \E v \in {Some(FALSE), Some(TRUE)} :
          /\ is_avoid_query' = StoreFlag(is_avoid_query, v)
          /\ is_avoid_query' # is_avoid_query
    /\ failed_since_write' = FALSE
    /\ UNCHANGED <<config, calls, bench, client, zd>>

(***************************************************************************)
(* The fusion functions on their own: search answers in, sub-lists and the *)
(* fused list out.                                                         *)
(***************************************************************************)
RRFConstants == {RRFConstant, RRFConstant + 1}

BenchOff ==
    [pc |-> "off", hits |-> <<>>, k |-> 0, lists |-> <<>>, fused |-> <<>>,
     completed |-> <<>>, fused_completed |-> <<>>]

\* The orders in which n sub-searches may complete.
CompletionOrders(n) == {p \in DistinctSeqs(1..n, n) : Len(p) = n}

BenchHybrid ==
    /\ bench.pc = "hits"
    /\ bench' = [bench EXCEPT !.pc = "lists", !.lists = SubLists(bench.hits)]
    /\ UNCHANGED <<config, is_avoid_query, calls, failed_since_write, client, zd>>

BenchFuse ==
    /\ bench.pc = "lists"
    /\ bench' = [bench EXCEPT !.pc = "fused",
                              !.fused = Fuse(bench.lists, bench.k, config.similarity_top_k)]
    /\ UNCHANGED <<config, is_avoid_query, calls, failed_since_write, client, zd>>

\* The same sub-lists joined in the order their searches complete, and fused.
BenchFuseCompleted ==
    /\ bench.pc = "fused"
    /\ \E p \in CompletionOrders(Len(bench.lists)) :
          LET completed == [i \in DOMAIN p |-> bench.lists[p[i]]]
          IN bench' = [bench EXCEPT !.pc = "completed", !.completed = completed,
                                    !.fused_completed =
                                        Fuse(completed, bench.k, config.similarity_top_k)]
    /\ UNCHANGED <<config, is_avoid_query, calls, failed_since_write, client, zd>>

(***************************************************************************)
(* The API clients (api/client.py): query builds the request, _query posts *)
(* it and looks at the status of the response.                             *)
(***************************************************************************)
OK == 200

\* The statuses the server may answer with.
Statuses == {OK, 201, 202, 204, 301, 400, 404, 422, 500, 503}

\* The bodies it may answer with: a JSON object of the response schema, or
\* something that APIQueryResponse(**response.json()) cannot be built from.
Bodies ==
    {[json |-> TRUE, answer |-> "answer one"], [json |-> TRUE, answer |-> "answer two"],
     [json |-> TRUE, answer |-> "an answer of 2001 characters"],
     [json |-> FALSE, answer |-> ""]}

ClientKinds == {"APIClient", "AsyncAPIClient"}

ClientIdle ==
    [pc |-> "idle", kind |-> "", status |-> None, body |-> None, result |-> None,
     outcome |-> "none"]

\* _query: if response.status_code == 200 (response.status == 200 in the
\* asynchronous client).
ReturnsParsedOn2xx(status) == status \in 200..299

ReturnsParsed(status) == status = OK

\* APIQueryResponse(**response.json())
ParseResponse(body) == [answer |-> body.answer]

\* query(question, chat_history): the request is built and posted.
ClientQuery ==
    /\ client.pc = "idle"
    /\ \E kind \in ClientKinds : client' = [ClientIdle EXCEPT !.pc = "posted", !.kind = kind]
    /\ UNCHANGED <<config, is_avoid_query, calls, failed_since_write, bench, zd>>

\* session.post(...) yields a response.
ClientResponse ==
    /\ client.pc = "posted"
    /\ \E status \in Statuses, body \in Bodies :
          client' = [client EXCEPT !.pc = "responded", !.status = Some(status),
                                   !.body = Some(body)]
    /\ UNCHANGED <<config, is_avoid_query, calls, failed_since_write, bench, zd>>

\* session.post(...) raises (no connection, timeout): there is no response, and
\* neither _query nor query catches.
ClientPostRaises ==
    /\ client.pc = "posted"
    /\ client' = [client EXCEPT !.pc = "done", !.outcome = "raised"]
    /\ UNCHANGED <<config, is_avoid_query, calls, failed_since_write, bench, zd>>

\* _query returns the parsed response or None, and query returns what _query
\* returned.
ClientReturn ==
    /\ client.pc = "responded"
    /\ ReturnsParsed(client.status[1]) => client.body[1].json
    /\ client' = [client EXCEPT !.pc = "done", !.outcome = "returned",
                                !.result = IF ReturnsParsed(client.status[1])
                                           THEN Some(ParseResponse(client.body[1]))
                                           ELSE None]
    /\ UNCHANGED <<config, is_avoid_query, calls, failed_since_write, bench, zd>>

\* The body of a response that is to be parsed is not one of the schema:
\* response.json() or the constructor raises.
ClientParseRaises ==
    /\ client.pc = "responded"
    /\ ReturnsParsed(client.status[1])
    /\ ~client.body[1].json
    /\ client' = [client EXCEPT !.pc = "done", !.outcome = "raised"]
    /\ UNCHANGED <<config, is_avoid_query, calls, failed_since_write, bench, zd>>

\* The caller has its answer; the client keeps nothing of the query.
ClientLeave ==
    /\ client.pc = "done"
    /\ client' = ClientIdle
    /\ UNCHANGED <<config, is_avoid_query, calls, failed_since_write, bench, zd>>

(***************************************************************************)
(* The Zendesk bot (apps/ZD/ZDWandbot.py): main sleeps, fetches the new    *)
(* forum tickets the bot has not answered, and answers each of them.       *)
(***************************************************************************)
TicketIds == {1, 2}

\* The order in which a search lists tickets.
TicketOrder == <<1, 2>>

Tags == {"forum", "answered_by_bot"}

\* A ticket nobody has filed yet.
NoTicket == [status |-> "none", tags |-> {}, answers |-> 0]

ZdOff ==
    [pc |-> "off", tickets |-> [t \in TicketIds |-> NoTicket], new_tickets |-> <<>>,
     ticket |-> None, question |-> None, response |-> None, formatted |-> None,
     succeeded |-> {}]

\* ticket.description, as the pieces extract_question tells apart.
Description(t) ==
    IF t = 1 THEN <<"How do I", "\n", "log metrics?", "[discourse post]">>
    ELSE <<"my run crashed", "\r", "\n">>

Lower(piece) == IF piece = "How do I" THEN "how do i" ELSE piece

\* extract_question: description.lower().replace('\n', ' ').replace('\r', '')
\* .replace('[discourse post]', '')
RECURSIVE ExtractQuestion(_)
ExtractQuestion(description) ==
    IF description = <<>> THEN <<>>
    ELSE LET piece == Lower(Head(description))
             rest == ExtractQuestion(Tail(description))
         IN IF piece = "\n" THEN <<" ">> \o rest
            ELSE IF piece \in {"\r", "[discourse post]"} THEN rest
            ELSE <<piece>> \o rest

\* len(response) of the texts a response may be.
AnswerLength(response) ==
    IF response = "an answer of 2001 characters" THEN 2001
    ELSE IF response = "Something went wrong!" THEN 21
    ELSE 10

MaxLength == 2000

\* format_response: cut at max_length, then the signature.
FormatResponse(response) ==
    [text |-> response, cut |-> AnswerLength(response) > MaxLength,
     signature |-> "\n\n-WandBot"]

\* A ticket object as the search returns it.
TicketObject(t) ==
    [id |-> t, status |-> zd.tickets[t].status, tags |-> zd.tickets[t].tags,
     comment |-> None, dirty |-> FALSE]

\* zenpy_client.search(type='ticket', status=...)
Search(status) ==
    LET HasStatus(t) == zd.tickets[t].status = status
        found == SelectSeq(TicketOrder, HasStatus)
    IN [i \in DOMAIN found |-> TicketObject(found[i])]

\* fetch_new_tickets: the two filters on ticket.tags.
IsForum(ticket) == "forum" \in ticket.tags

NotAnsweredUnfiltered(ticket) == TRUE

NotAnswered(ticket) == "answered_by_bot" \notin ticket.tags

\* tickets.update(ticket): the account takes what the bot has changed on its
\* ticket object, and the comment it carries is posted.
Updated(tickets, ticket) ==
    IF ~ticket.dirty THEN tickets
    ELSE [tickets EXCEPT ![ticket.id] =
             [status |-> ticket.status, tags |-> ticket.tags,
              answers |-> @.answers + (IF ticket.comment # None THEN 1 ELSE 0)]]

\* The ticket object after an update that went through.
Sent(ticket) == [ticket EXCEPT !.comment = None, !.dirty = FALSE]

\* A customer files a ticket; the forum integration and triggers tag it.
TicketArrives ==
    /\ zd.pc # "off"
    /\ \E t \in TicketIds, tags \in SUBSET Tags :
          /\ zd.tickets[t].status = "none"
          /\ zd' = [zd EXCEPT !.tickets[t] = [status |-> "new", tags |-> tags, answers |-> 0]]
    /\ UNCHANGED <<config, is_avoid_query, calls, failed_since_write, bench, client>>

\* An agent works on a ticket: a status and tags. Zendesk lets no ticket
\* return to the status new.
AgentUpdates ==
    /\ zd.pc # "off"
    /\ \E t \in TicketIds, status \in {"open", "solved"}, tags \in SUBSET Tags :
          /\ zd.tickets[t].status \in {"new", "open"}
          /\ zd' = [zd EXCEPT !.tickets[t].status = status, !.tickets[t].tags = tags]
          /\ zd'.tickets # zd.tickets
    /\ UNCHANGED <<config, is_avoid_query, calls, failed_since_write, bench, client>>

\* main: new_tickets = self.fetch_new_tickets(), after the sleep.
FetchNewTickets ==
    /\ zd.pc = "sleep"
    /\ zd' = [zd EXCEPT !.pc = "for",
                        !.new_tickets = SelectSeq(SelectSeq(Search("new"), IsForum), NotAnswered)]
    /\ UNCHANGED <<config, is_avoid_query, calls, failed_since_write, bench, client>>

\* The search raises (Zendesk unreachable): nothing in fetch_new_tickets or
\* main catches, and the loop ends.
FetchRaises ==
    /\ zd.pc = "sleep"
    /\ zd' = [zd EXCEPT !.pc = "stopped"]
    /\ UNCHANGED <<config, is_avoid_query, calls, failed_since_write, bench, client>>

\* for ticket in new_tickets: question = self.extract_question(ticket)
ForTicket ==
    /\ zd.pc = "for"
    /\ zd.new_tickets # <<>>
    /\ zd' = [zd EXCEPT !.pc = "question", !.ticket = Some(Head(zd.new_tickets)),
                        !.new_tickets = Tail(zd.new_tickets),
                        !.question = Some(ExtractQuestion(Description(Head(zd.new_tickets).id)))]
    /\ UNCHANGED <<config, is_avoid_query, calls, failed_since_write, bench, client>>

\* The list is exhausted: back to the top of while True, and the sleep.
ForDone ==
    /\ zd.pc = "for"
    /\ zd.new_tickets = <<>>
    /\ zd' = [zd EXCEPT !.pc = "sleep", !.ticket = None, !.question = None,
                        !.response = None, !.formatted = None]
    /\ UNCHANGED <<config, is_avoid_query, calls, failed_since_write, bench, client>>

\* generate_response: the answer of api_client.query; when the query raises,
\* or returns None so that response.answer raises, 'Something went wrong!'.
GenerateResponse ==
    /\ zd.pc = "question"
    /\ \E raises \in BOOLEAN, status \in Statuses, body \in Bodies :
          zd' = [zd EXCEPT !.pc = "response",
                           !.response =
                               IF ~raises /\ ReturnsParsed(status) /\ body.json
                               THEN Some(ParseResponse(body).answer)
                               ELSE Some("Something went wrong!")]
    /\ UNCHANGED <<config, is_avoid_query, calls, failed_since_write, bench, client>>

\* formatted_response = self.format_response(response)
FormatResponseStep ==
    /\ zd.pc = "response"
    /\ zd' = [zd EXCEPT !.pc = "formatted", !.formatted = Some(FormatResponse(zd.response[1]))]
    /\ UNCHANGED <<config, is_avoid_query, calls, failed_since_write, bench, client>>

\* update_ticket: the comment, the status and the tag on the ticket object.
Answered(ticket, response) ==
    [ticket EXCEPT !.comment = Some(response), !.status = "open",
                   !.tags = @ \cup {"answered_by_bot"}, !.dirty = TRUE]

\* update_ticket, and tickets.update(ticket) goes through.
UpdateTicket ==
    /\ zd.pc = "formatted"
    /\ LET ticket == Answered(zd.ticket[1], zd.formatted[1])
       IN zd' = [zd EXCEPT !.pc = "updated", !.tickets = Updated(zd.tickets, ticket),
                           !.ticket = Some(Sent(ticket)),
                           !.succeeded = @ \cup {ticket.id}]
    /\ UNCHANGED <<config, is_avoid_query, calls, failed_since_write, bench, client>>

\* update_ticket, and tickets.update(ticket) raises: the error is printed, the
\* account has nothing of the answer, the ticket object keeps it.
UpdateTicketRaises ==
    /\ zd.pc = "formatted"
    /\ zd' = [zd EXCEPT !.pc = "updated",
                        !.ticket = Some(Answered(zd.ticket[1], zd.formatted[1]))]
    /\ UNCHANGED <<config, is_avoid_query, calls, failed_since_write, bench, client>>

\* gather_feedback: ticket.comments.append(...) and tickets.update(ticket) go
\* through; the update carries what the ticket object still has to send.
GatherFeedback ==
    /\ zd.pc = "updated"
    /\ zd' = [zd EXCEPT !.pc = "for", !.tickets = Updated(zd.tickets, zd.ticket[1]),
                        !.ticket = Some(Sent(zd.ticket[1]))]
    /\ UNCHANGED <<config, is_avoid_query, calls, failed_since_write, bench, client>>

\* gather_feedback raises, in the append or in the update: the error is printed.
GatherFeedbackRaises ==
    /\ zd.pc = "updated"
    /\ zd' = [zd EXCEPT !.pc = "for"]
    /\ UNCHANGED <<config, is_avoid_query, calls, failed_since_write, bench, client>>

(***************************************************************************)
(* Specifications.                                                         *)
(***************************************************************************)
InitEngine ==
    /\ config \in Configs
    /\ is_avoid_query = None
    /\ calls = [c \in Callers |-> IdleCall]
    /\ failed_since_write = FALSE

\* One caller at a time, every argument, every search answer; load_query_engine
\* may be called by others at any moment.
Init ==
    /\ InitEngine
    /\ bench = BenchOff
    /\ client = ClientIdle
    /\ zd = ZdOff

Next ==
    \/ Retrieve(1, AllArgs)
    \/ LoadQueryEngine(1)
    \/ ReadFlag(1)
    \/ Embed(1)
    \/ EmbedRaises(1)
    \/ HybridSearch(1, SubListAnswers[config])
    \/ FuseLists(1)
    \/ SearchRaises(1)
    \/ TagFilter(1)
    \/ LanguageFilter(1)
    \/ Rerank(1)
    \/ RerankRaises(1)
    \/ Return(1)
    \/ Leave(1)
    \/ ExternalLoadQueryEngine

Spec == Init /\ [][Next]_vars

\* Two callers at once, each with its own is_avoid_query argument, on a store
\* whose searches find one passage.
FlagArgs == {[NoArgs EXCEPT !.is_avoid_query = v] : v \in {None, Some(FALSE), Some(TRUE)}}

OneAnswer == {SubLists(<<[dense |-> <<1>>, sparse |-> <<>>], [dense |-> <<>>, sparse |-> <<>>]>>)}

NextConcurrent ==
    \/ \E c \in Callers :
          \/ Retrieve(c, FlagArgs)
          \/ LoadQueryEngine(c)
          \/ ReadFlag(c)
          \/ Embed(c)
          \/ EmbedRaises(c)
          \/ HybridSearch(c, OneAnswer)
          \/ FuseLists(c)
          \/ SearchRaises(c)
          \/ TagFilter(c)
          \/ LanguageFilter(c)
          \/ Rerank(c)
          \/ RerankRaises(c)
          \/ Return(c)
          \/ Leave(c)
    \/ ExternalLoadQueryEngine

SpecConcurrent == Init /\ [][NextConcurrent]_vars

\* Two callers at once on an engine in which load_query_engine(is_avoid_query=v)
\* has stored a flag, and nobody stores another.
InitStored ==
    /\ config \in Configs
    /\ is_avoid_query \in {StoreFlag(None, Some(v)) : v \in BOOLEAN}
    /\ calls = [c \in Callers |-> IdleCall]
    /\ failed_since_write = FALSE
    /\ bench = BenchOff
    /\ client = ClientIdle
    /\ zd = ZdOff

NextStored ==
    \E c \in Callers :
        \/ Retrieve(c, FlagArgs)
        \/ LoadQueryEngine(c)
        \/ ReadFlag(c)
        \/ Embed(c)
        \/ EmbedRaises(c)
        \/ HybridSearch(c, OneAnswer)
        \/ FuseLists(c)
        \/ SearchRaises(c)
        \/ TagFilter(c)
        \/ LanguageFilter(c)
        \/ Rerank(c)
        \/ RerankRaises(c)
        \/ Return(c)
        \/ Leave(c)

SpecStored == InitStored /\ [][NextStored]_vars

\* The engine called as a function, with the options __call__ hands on to
\* retrieve.
CallArgs ==
    {a \in AllArgs : a.top_k \in {None, Some(1)} /\ a.language \in {None, Some("ja")}}

NextCall ==
    \/ Call(1, CallArgs)
    \/ LoadQueryEngine(1)
    \/ ReadFlag(1)
    \/ Embed(1)
    \/ EmbedRaises(1)
    \/ HybridSearch(1, SubListAnswers[config])
    \/ FuseLists(1)
    \/ SearchRaises(1)
    \/ TagFilter(1)
    \/ LanguageFilter(1)
    \/ Rerank(1)
    \/ RerankRaises(1)
    \/ Return(1)
    \/ CallReturn(1)
    \/ CallRaises(1)
    \/ Leave(1)

SpecCall == Init /\ [][NextCall]_vars

\* The bot of an account without tickets, at the top of its loop.
InitZendesk ==
    /\ InitEngine
    /\ bench = BenchOff
    /\ client = ClientIdle
    /\ zd = [ZdOff EXCEPT !.pc = "sleep"]

NextZendesk ==
    \/ TicketArrives
    \/ AgentUpdates
    \/ FetchNewTickets
    \/ FetchRaises
    \/ ForTicket
    \/ ForDone
    \/ GenerateResponse
    \/ FormatResponseStep
    \/ UpdateTicket
    \/ UpdateTicketRaises
    \/ GatherFeedback
    \/ GatherFeedbackRaises

SpecZendesk == InitZendesk /\ [][NextZendesk]_vars

\* The fusion functions applied to every search answer.
InitFusion ==
    /\ InitEngine
    /\ bench \in {[BenchOff EXCEPT !.pc = "hits", !.hits = h, !.k = k] :
                     h \in Searches(config), k \in RRFConstants}
    /\ client = ClientIdle
    /\ zd = ZdOff

NextFusion == BenchHybrid \/ BenchFuse \/ BenchFuseCompleted

SpecFusion == InitFusion /\ [][NextFusion]_vars

\* The queries of the API clients, one at a time, over every answer of the server.
NextClient ==
    \/ ClientQuery
    \/ ClientResponse
    \/ ClientPostRaises
    \/ ClientReturn
    \/ ClientParseRaises
    \/ ClientLeave

SpecClient == Init /\ [][NextClient]_vars

(***************************************************************************)
(* How far a call has come.                                                *)
(***************************************************************************)
Loaded(c) ==
    \/ calls[c].pc \in {"flag", "embed", "fusion", "fuse", "tag", "lang", "rerank", "map"}
    \/ calls[c].pc = "done"

FusionDone(c) ==
    \/ calls[c].pc \in {"tag", "lang", "rerank", "map"}
    \/ calls[c].pc = "done" /\ calls[c].raised \in {"none", "rerank"}

TagFilterDone(c) ==
    \/ calls[c].pc \in {"lang", "rerank", "map"}
    \/ calls[c].pc = "done" /\ calls[c].raised \in {"none", "rerank"}

LanguageFilterDone(c) ==
    \/ calls[c].pc \in {"rerank", "map"}
    \/ calls[c].pc = "done" /\ calls[c].raised \in {"none", "rerank"}

Returned(c) == calls[c].pc = "done" /\ calls[c].outcome = "returned"

\* The top_k of the claims: the caller's, the configured one when it gives none.
RequestedTopK(c) ==
    IF calls[c].args.top_k = None THEN config.top_k ELSE calls[c].args.top_k[1]

RequestedLanguage(c) ==
    IF calls[c].args.language = None THEN config.language ELSE calls[c].args.language[1]

(***************************************************************************)
(* The claims.                                                             *)
(***************************************************************************)

\* C1 (as stated; the code violates it): every list retrieve returns has at
\* most the requested top_k entries, the configured top_k when the caller
\* gives none.
C1_AtMostRequestedTopK ==
    \A c \in Callers : Returned(c) => Len(calls[c].outputs) <= RequestedTopK(c)

\* C2: when the fusion retriever finds no passages, nothing raises afterwards
\* and retrieve returns the empty sequence.
C2_NoPassagesReturnsEmpty ==
    \A c \in Callers :
        (FusionDone(c) /\ calls[c].fused = <<>>) =>
            /\ calls[c].raised = "none"
            /\ calls[c].results = <<>>
            /\ calls[c].outputs = <<>>

C2_Witness ==
    \E c \in Callers : Returned(c) /\ calls[c].fused = <<>> /\ calls[c].outputs = <<>>

\* C3: no passage occurs twice in a list: not in the merged list of an index,
\* not in the fused list, not in the list of any post-processor, not in the
\* list retrieve returns.
C3_NoDuplicatePassages ==
    \A c \in Callers :
        /\ \A i \in DOMAIN calls[c].sub_lists : NoDup(Ids(calls[c].sub_lists[i]))
        /\ NoDup(Ids(calls[c].fused))
        /\ NoDup(Ids(calls[c].tagged))
        /\ NoDup(Ids(calls[c].langed))
        /\ NoDup(Ids(calls[c].results))
        /\ NoDup([i \in DOMAIN calls[c].outputs |-> calls[c].outputs[i].text])

\* A returned list that holds, once, a node the fusion had from two sub-lists
\* (its fused score is above what any single sub-list gives).
C3_Witness ==
    \E c \in Callers :
        /\ Returned(c)
        /\ \E i \in DOMAIN calls[c].fused :
              /\ calls[c].fused[i].score > Reciprocal(1, RRFConstant)
              /\ \E j \in DOMAIN calls[c].outputs :
                    calls[c].outputs[j].text = NodeText(calls[c].fused[i].id)

\* C4 (as stated; the code violates it): when the re-ranker's dependency has
\* raised during a call, the call still returns: the list of the tag and
\* language filters, order and scores as they were, cut to top_k entries.
C4_RerankerFailureDegrades ==
    \A c \in Callers :
        (calls[c].pc = "done" /\ calls[c].raised = "rerank") =>
            /\ calls[c].outcome = "returned"
            /\ calls[c].outputs = Outputs(Take(calls[c].langed, calls[c].top_k))

\* C5 (as stated; the code violates it): the effective top_k and language are
\* the caller's whenever the caller gives them, the stored defaults otherwise.
C5_CallerValuesOverrideDefaults ==
    \A c \in Callers :
        Loaded(c) =>
            /\ calls[c].top_k = RequestedTopK(c)
            /\ calls[c].language = RequestedLanguage(c)

\* C6: the step by which a retrieve call returns leaves the stored flag None.
C6_ReturnClearsFlag ==
    [][\A c \in Callers :
          (calls[c].outcome # "returned" /\ calls'[c].outcome = "returned") =>
              is_avoid_query' = None]_vars

\* A call that found the stored flag True has returned, and the flag is None.
C6_Witness ==
    \E c \in Callers :
        /\ Returned(c)
        /\ calls[c].args.is_avoid_query # Some(TRUE)
        /\ calls[c].avoid_query = Some(TRUE)
        /\ is_avoid_query = None

\* C7 (as stated; the code violates it): once a retrieve call has raised, and
\* nobody has written the flag since, the avoid flag a retrieve call computes
\* for the fusion retriever is the one of its own argument.
C7_NothingSurvivesFailedCall ==
    [][\A c \in Callers :
          (calls[c].pc = "flag" /\ calls'[c].pc = "embed" /\ failed_since_write) =>
              TruthyBool(calls'[c].avoid_query) = TruthyBool(calls[c].args.is_avoid_query)]_vars

InList(list, n) == n \in Range(Ids(list))

\* n is in some sub-list, and first in every sub-list that holds it.
FirstWhereListed(lists, n) ==
    /\ \E i \in DOMAIN lists : InList(lists[i], n)
    /\ \A i \in DOMAIN lists : InList(lists[i], n) => lists[i][1].id = n

Appearances(lists, n) == Cardinality({i \in DOMAIN lists : InList(lists[i], n)})

FirstOrTied(fused, n) ==
    \E i \in DOMAIN fused : fused[i].id = n /\ fused[i].score = fused[1].score

\* C8 (as stated; reciprocal-rank fusion violates it): a node that is first
\* in every sub-list in which it appears is first, or tied for first, in the
\* fused list.
C8_FirstWhereListedIsFirst ==
    bench.pc = "fused" =>
        \A n \in Nodes : FirstWhereListed(bench.lists, n) => FirstOrTied(bench.fused, n)

\* C8, amended: a node that is first in every sub-list in which it appears,
\* and appears in at least as many sub-lists as every other node, is first or
\* tied for first in the fused list, unless the cut to similarity_top_k left a
\* list of nodes that all tie with it.
C8_FirstAndMostListedIsFirst ==
    bench.pc = "fused" =>
        \A n \in Nodes :
            (/\ FirstWhereListed(bench.lists, n)
             /\ \A m \in Nodes : Appearances(bench.lists, m) <= Appearances(bench.lists, n)) =>
                \/ FirstOrTied(bench.fused, n)
                \/ /\ Len(bench.fused) = config.similarity_top_k
                   /\ \A i \in DOMAIN bench.fused :
                         bench.fused[i].score = FusedScore(bench.lists, n, bench.k)

\* The node of both indices is first in both sub-lists and heads a fused list
\* of several nodes.
C8_Witness ==
    /\ bench.pc = "fused"
    /\ \E n \in Nodes :
          /\ FirstWhereListed(bench.lists, n)
          /\ Appearances(bench.lists, n) = Len(bench.lists)
          /\ Len(bench.fused) >= 2
          /\ bench.fused[1].id = n
          /\ bench.fused[2].score < bench.fused[1].score

\* C9: with min_result_size > 0, a filter whose strict filtering of a
\* non-empty list keeps nothing still returns a non-empty list: the tag
\* filter on the fused list, the language filter on the tag filter's list.
C9_BackfillIsNonEmpty ==
    \A c \in Callers :
        /\ (/\ TagFilterDone(c)
            /\ MinResultSize(calls[c].top_k) > 0
            /\ calls[c].fused # <<>>
            /\ StrictTags(calls[c].fused, calls[c].args.include_tags,
                          calls[c].args.exclude_tags) = <<>>)
              => calls[c].tagged # <<>>
        /\ (/\ LanguageFilterDone(c)
            /\ MinResultSize(calls[c].top_k) > 0
            /\ calls[c].tagged # <<>>
            /\ StrictLanguage(calls[c].tagged, Languages(calls[c].language)) = <<>>)
              => calls[c].langed # <<>>

\* Both filters have backfilled in one call: no node passed the tags and no
\* node of the tag filter's list passed the languages.
C9_Witness ==
    \E c \in Callers :
        /\ LanguageFilterDone(c)
        /\ MinResultSize(calls[c].top_k) > 0
        /\ calls[c].fused # <<>>
        /\ StrictTags(calls[c].fused, calls[c].args.include_tags,
                      calls[c].args.exclude_tags) = <<>>
        /\ calls[c].tagged # <<>>
        /\ StrictLanguage(calls[c].tagged, Languages(calls[c].language)) = <<>>
        /\ calls[c].langed # <<>>

\* C10: every node of the language filter's input whose language is "python"
\* is in its output, whatever language the call asks for.
C10_FallbackLanguagePasses ==
    \A c \in Callers :
        LanguageFilterDone(c) =>
            \A i \in DOMAIN calls[c].tagged :
                NodeLanguage(calls[c].tagged[i].id) = "python" =>
                    InList(calls[c].langed, calls[c].tagged[i].id)

\* A "python" node has passed a filter for another language that was not
\* short of results: it passed on the fallback, not on the backfill.
C10_Witness ==
    \E c \in Callers :
        /\ LanguageFilterDone(c)
        /\ calls[c].language = "ja"
        /\ Len(calls[c].langed) > MinResultSize(calls[c].top_k)
        /\ \E i \in DOMAIN calls[c].langed : NodeLanguage(calls[c].langed[i].id) = "python"

\* C11: a query of either client returns a parsed response only when the
\* status of the response is exactly 200, and for every other status it
\* returns None and raises nothing.
C11_ParsedOnlyOn200 ==
    (client.pc = "done" /\ client.status # None) =>
        /\ client.result # None => client.status = Some(OK)
        /\ client.status # Some(OK) => client.outcome = "returned" /\ client.result = None

C11_Witness ==
    /\ client.pc = "done"
    /\ client.kind = "AsyncAPIClient"
    /\ client.status = Some(201)
    /\ client.body # None /\ client.body[1].json
    /\ client.outcome = "returned"
    /\ client.result = None

\* C12: in every engine load_query_engine builds, the fusion retriever runs
\* first and then the tag filter, the language filter and the re-ranker, in
\* this order, each on the list its predecessor has produced: the stages a
\* call has run are always a prefix of this order, a call that returns has
\* run them all, and every list is drawn from its predecessor's.
StageOrder == <<"fusion", "tag", "lang", "rerank">>

C12_StagesInFixedOrder ==
    \A c \in Callers :
        /\ Len(calls[c].ran) <= Len(StageOrder)
        /\ calls[c].ran = Take(StageOrder, Len(calls[c].ran))
        /\ Returned(c) => calls[c].ran = StageOrder
        /\ Len(calls[c].ran) < 1 => calls[c].fused = <<>>
        /\ Len(calls[c].ran) < 2 => calls[c].tagged = <<>>
        /\ Len(calls[c].ran) < 3 => calls[c].langed = <<>>
        /\ Len(calls[c].ran) < 4 => calls[c].results = <<>>
        /\ Range(Ids(calls[c].tagged)) \subseteq Range(Ids(calls[c].fused))
        /\ Range(Ids(calls[c].langed)) \subseteq Range(Ids(calls[c].tagged))
        /\ Range(Ids(calls[c].results)) \subseteq Range(Ids(calls[c].langed))

\* A call has returned a passage that came through all four stages, with both
\* tag options and a language given.
C12_Witness ==
    \E c \in Callers :
        /\ Returned(c)
        /\ calls[c].ran = StageOrder
        /\ calls[c].args.include_tags # None
        /\ calls[c].args.exclude_tags # None
        /\ calls[c].args.language = Some("ja")
        /\ calls[c].results # <<>>
        /\ Len(calls[c].langed) < Len(calls[c].fused)

\* C13 (as stated; the code does otherwise on an engine whose configured
\* language is not "en"): the re-ranker of a call has top_n equal to the
\* effective top_k, the English model exactly when the effective language
\* equals the default language of the engine, and the multilingual model
\* whenever it differs from it.
C13_DefaultModelIffDefaultLanguage ==
    \A c \in Callers :
        Loaded(c) =>
            /\ calls[c].rerank_top_n = calls[c].top_k
            /\ calls[c].rerank_model = "rerank-english-v2.0" <=> calls[c].language = config.language
            /\ calls[c].language # config.language =>
                  calls[c].rerank_model = "rerank-multilingual-v2.0"

\* C13 (amended): the re-ranker of a call has top_n equal to the effective
\* top_k, the English model exactly when the effective language is "en", the
\* value RetrieverConfig.language defaults to, and the multilingual model
\* whenever the effective language is another one.
C13_EnglishModelIffEnglish ==
    \A c \in Callers :
        Loaded(c) =>
            /\ calls[c].rerank_top_n = calls[c].top_k
            /\ calls[c].rerank_model = "rerank-english-v2.0" <=> calls[c].language = "en"
            /\ calls[c].language # "en" => calls[c].rerank_model = "rerank-multilingual-v2.0"

\* A call that gives no language, on an engine configured with "ja", has
\* re-ranked with the multilingual model and returned.
C13_Witness ==
    \E c \in Callers :
        /\ Returned(c)
        /\ calls[c].args.language = None
        /\ calls[c].language = "ja"
        /\ config.language = "ja"
        /\ calls[c].rerank_model = "rerank-multilingual-v2.0"
        /\ calls[c].rerank_top_n = calls[c].top_k
        /\ calls[c].results # <<>>

\* The engine has called the fusion retriever of call c, which has answered.
FusionCalled(c) ==
    \/ calls[c].pc \in {"fuse", "tag", "lang", "rerank", "map"}
    \/ calls[c].pc = "done" /\ calls[c].raised \in {"none", "rerank"}

\* Call c has passed a true flag that is not its own argument: the stored one.
PassedStored(c) ==
    /\ FusionCalled(c)
    /\ TruthyBool(calls[c].avoid_query)
    /\ ~TruthyBool(calls[c].args.is_avoid_query)

\* C14 (as stated; the code violates it): a flag stored by
\* load_query_engine(is_avoid_query=v) is passed to the fusion retriever by at
\* most one retrieve call, in every interleaving of the calls.
C14_StoredFlagPassedOnce ==
    \A c1, c2 \in Callers : (PassedStored(c1) /\ PassedStored(c2)) => c1 = c2

Scores(nodes) == [i \in DOMAIN nodes |-> nodes[i].score]

\* No two nodes of the sub-lists have the same fused score.
NoTies(lists, k) ==
    \A n, m \in Nodes :
        (n # m /\ Appearances(lists, n) > 0 /\ Appearances(lists, m) > 0) =>
            FusedScore(lists, n, k) # FusedScore(lists, m, k)

C16_PassedFlagIsStoredOrOwn ==
    [][\A c \in Callers :
          /\ (calls[c].pc = "flag" /\ calls'[c].pc = "embed") =>
                (TruthyBool(calls'[c].avoid_query) <=>
                    (TruthyBool(is_avoid_query) \/ TruthyBool(calls[c].args.is_avoid_query)))
          /\ (calls[c].pc \in {"embed", "fusion"} /\ calls'[c].pc \in {"fusion", "fuse"}) =>
                calls'[c].avoid_query = calls[c].avoid_query]_vars

\* A call with is_avoid_query=False has passed True to the fusion retriever,
\* which has cut its list short.
C16_Witness ==
    \E c \in Callers :
        /\ FusionCalled(c)
        /\ calls[c].args.is_avoid_query = Some(FALSE)
        /\ TruthyBool(calls[c].avoid_query)
        /\ calls[c].fused = <<>>
        /\ calls[c].ran = <<"fusion">>

\* C17 (as stated; the code violates it): once retrieve has returned to
\* __call__, __call__ raises nothing and returns the list retrieve returned,
\* the empty list too.
C17_CallReturnsWhatRetrieveReturns ==
    \A c \in Callers :
        (calls[c].called /\ Returned(c) /\ calls[c].call_outcome # "none") =>
            /\ calls[c].call_outcome = "returned"
            /\ calls[c].call_result = calls[c].outputs

\* C18: every ticket fetch_new_tickets returns is new, tagged "forum" and not
\* tagged "answered_by_bot" in the account, and is none of the tickets for
\* which update_ticket has succeeded; and no ticket ever has more than one
\* answer of the bot.
C18_AnsweredTicketIsNotFetchedAgain ==
    [][/\ (zd.pc = "sleep" /\ zd'.pc = "for") =>
              \A i \in DOMAIN zd'.new_tickets :
                  LET t == zd'.new_tickets[i].id
                  IN /\ zd.tickets[t].status = "new"
                     /\ "forum" \in zd.tickets[t].tags
                     /\ "answered_by_bot" \notin zd.tickets[t].tags
                     /\ t \notin zd.succeeded
       /\ \A t \in TicketIds : zd'.tickets[t].answers <= 1]_vars

\* The bot answered ticket 2 in one iteration and, in a later one, fetched
\* and answered ticket 1 alone.
C18_Witness ==
    /\ zd.pc = "updated"
    /\ zd.succeeded = {1, 2}
    /\ zd.ticket # None /\ zd.ticket[1].id = 1
    /\ zd.new_tickets = <<>>
    /\ \A t \in TicketIds : zd.tickets[t].answers = 1
    /\ zd.tickets[2].status = "open"
    /\ "answered_by_bot" \in zd.tickets[2].tags

====
